---- MODULE Spec2Model ----
(***************************************************************************)
(* Model of the J GIL Image Studio backend (src/server.js): the /generate  *)
(* handler, its in-memory monthly usage ledger and the admin allow-list.   *)
(*                                                                         *)
(* JavaScript strings are modelled as sequences of one-character strings,  *)
(* so that split(",") and trim() are computed, not assumed.  The handler   *)
(* is modelled statement group by statement group; `running` is the single *)
(* JavaScript thread: a handler keeps it from its first statement until it *)
(* returns or reaches an `await`.                                          *)
(***************************************************************************)
EXTENDS Integers, Sequences, FiniteSets, TLC

(* ------------------------------ bounds --------------------------------- *)
\* number of requests that can be in flight at the same time
NumSlots == 2
\* largest configured monthly limit explored
MaxLimit == 2
\* number of month changes of the wall clock explored
MaxTicks == 1

(* ------------------------------ strings -------------------------------- *)
EMPTY == <<>>
UNKNOWN == <<"u", "n", "k", "n", "o", "w", "n">>

IsSpace(c) == c = " "

RECURSIVE TrimStart(_)
TrimStart(s) ==
    IF s = <<>> THEN <<>>
    ELSE IF IsSpace(Head(s)) THEN TrimStart(Tail(s)) ELSE s

RECURSIVE TrimEnd(_)
TrimEnd(s) ==
    IF s = <<>> THEN <<>>
    ELSE IF IsSpace(s[Len(s)]) THEN TrimEnd(SubSeq(s, 1, Len(s) - 1)) ELSE s

\* String.prototype.trim
Trim(s) == TrimEnd(TrimStart(s))

\* String.prototype.split(","): the sequence of the pieces between commas
RECURSIVE SplitFrom(_, _)
SplitFrom(s, cur) ==
    IF s = <<>> THEN <<cur>>
    ELSE IF Head(s) = "," THEN <<cur>> \o SplitFrom(Tail(s), <<>>)
    ELSE SplitFrom(Tail(s), Append(cur, Head(s)))

Split(s) == SplitFrom(s, <<>>)

(* -------------------------- JavaScript values -------------------------- *)
\* A JavaScript value is a record of its type and its payload; the payload
\* is read only after the type has been tested.
JsUndefined == [t |-> "undefined", v |-> <<>>]
JsString(s) == [t |-> "string", v |-> s]
JsNumber(n) == [t |-> "number", v |-> n]
JsArray(a) == [t |-> "array", v |-> a]

\* truthiness: undefined, "" and 0 are falsy, an array is truthy
Truthy(x) ==
    CASE x.t = "undefined" -> FALSE
      [] x.t = "string" -> x.v # <<>>
      [] x.t = "number" -> x.v # 0
      [] x.t = "array" -> TRUE

(* --------------------------- configuration ----------------------------- *)
\* values of the ADMIN_IPS environment variable explored
AdminEnvValues == << JsUndefined, JsString(<<" ", "b", " ", ",", ",", " ", "b">>) >>

\* values of the HF_API_KEY environment variable explored
ApiKeyValues == << JsUndefined, JsString(<<"k">>) >>

\* values of MAX_IMAGES_PER_MONTH (after parseInt) explored
Limits == 1..MaxLimit

\* the wall clock when the process starts: <<getUTCFullYear(), getUTCMonth()>>
StartClock == <<2025, 11>>

(* ------------------------------ requests ------------------------------- *)
\* The /generate requests explored.  xf: the x-forwarded-for header; ip:
\* req.ip; remote: req.connection.remoteAddress; prompt: req.body.prompt.
RequestTable == <<
    [xf |-> JsString(<<"a">>),
     ip |-> JsString(<<"c">>), remote |-> JsString(<<"c">>),
     prompt |-> JsString(<<"c", "a", "t">>)],
    [xf |-> JsArray(<< <<" ", "b", ",", "a">>, <<"a">> >>),
     ip |-> JsString(<<"c">>), remote |-> JsString(<<"c">>),
     prompt |-> JsString(<<"c", "a", "t">>)],
    [xf |-> JsString(<<" ", ",", "a">>),
     ip |-> JsString(<<"a">>), remote |-> JsString(<<"a">>),
     prompt |-> JsString(<<"c", "a", "t">>)],
    [xf |-> JsString(<<>>),
     ip |-> JsUndefined, remote |-> JsString(<<"a">>),
     prompt |-> JsString(<<"c", "a", "t">>)],
    [xf |-> JsUndefined,
     ip |-> JsUndefined, remote |-> JsUndefined,
     prompt |-> JsString(<<>>)],
    [xf |-> JsUndefined,
     ip |-> JsString(<<"b">>), remote |-> JsString(<<"b">>),
     prompt |-> JsNumber(7)] >>

ReqIds == 1..Len(RequestTable)
NoReq == 0
Request(k) == RequestTable[k]

(* --------------------------- pure functions ---------------------------- *)
\* getMonthKey: `${now.getUTCFullYear()}-${now.getUTCMonth() + 1}`
getMonthKey(now) == <<now[1], now[2] + 1>>

\* getAdminIps: (env || "").split(",").map(trim).filter(Boolean), as the set
\* that includes() searches
getAdminIps(env) ==
    LET raw   == IF Truthy(env) THEN env.v ELSE <<>>
        parts == Split(raw)
    IN  { Trim(parts[i]) : i \in { j \in 1..Len(parts) : Trim(parts[j]) # <<>> } }

\* a membership test that forgets to trim the configured entries
IsAdminIpUntrimmed(ip, env) ==
    LET parts == Split(IF Truthy(env) THEN env.v ELSE <<>>)
    IN  ip \in { parts[i] : i \in 1..Len(parts) }

\* adminIps.includes(clientIp)
IsAdminIp(ip, env) == ip \in getAdminIps(env)

\* getClientIp
getClientIp(req) ==
    IF req.xf.t = "string" /\ Len(req.xf.v) > 0
    THEN Trim(Split(req.xf.v)[1])
    ELSE IF req.xf.t = "array" /\ Len(req.xf.v) > 0
    THEN Trim(Split(req.xf.v[1])[1])
    ELSE IF Truthy(req.ip) THEN req.ip.v
    ELSE IF Truthy(req.remote) THEN req.remote.v
    ELSE UNKNOWN

\* the identities the explored requests can have
Ips == { getClientIp(Request(k)) : k \in ReqIds }

(* ------------------------------ the Map -------------------------------- *)
EmptyMap == [x \in {} |-> 0]
\* usageByIp.get(k) || 0
MapGetOrZero(m, k) == IF k \in DOMAIN m /\ m[k] # 0 THEN m[k] ELSE 0
MapSet(m, k, v) == [x \in (DOMAIN m) \cup {k} |-> IF x = k THEN v ELSE m[x]]

(* ------------------------------- state --------------------------------- *)
Slots == 1..NumSlots
NoSlot == 0

VARIABLES
    clock,                 \* the wall clock, <<year, month 0..11>>
    HF_API_KEY,            \* process.env.HF_API_KEY
    ADMIN_IPS,             \* process.env.ADMIN_IPS
    MAX_IMAGES_PER_MONTH,  \* the configured limit
    usageByIp,             \* the Map ip -> count of this month
    currentMonthKey,       \* the month key usageByIp belongs to
    running,               \* the slot whose handler holds the thread, or NoSlot
    pc,                    \* per slot: the position of its handler
    req,                   \* per slot: the request waiting for its handler (index)
    clientIp,              \* per slot: const clientIp
    isAdmin,               \* per slot: const isAdmin
    previous,              \* per slot: const previous
    usageInfo,             \* per slot: let usageInfo
    res,                   \* per slot: the responses sent, in order
    called,                \* per slot: fetch(HF_API_URL) has been started
    epoch,                 \* history: month changes seen by requests so far
    admitted,              \* history: ip -> requests let through since the last month change seen
    started,               \* history: ip -> upstream calls started since the last month change seen
    entry,                 \* history: the ledger when the running handler was entered
    arrival,               \* history, per slot: a request that arrived with one image left
    program,               \* which program runs: "server" (server.js) or "variant"
    STABILITY_API_KEY,     \* process.env.STABILITY_API_KEY (variant)
    STABILITY_API_URL,     \* process.env.STABILITY_API_URL (variant)
    tracking,              \* whether the specified ledger is run alongside
    specLedger             \* the specified ledger: ip -> [period, count]

config == <<HF_API_KEY, ADMIN_IPS, MAX_IMAGES_PER_MONTH, program,
           STABILITY_API_KEY, STABILITY_API_URL, tracking>>
ledger == <<usageByIp, currentMonthKey>>
locals == <<req, clientIp, isAdmin, previous, usageInfo>>
history == <<epoch, admitted, started, entry, arrival, specLedger>>
vars == <<clock, config, ledger, running, pc, locals, res, called, history>>

\* the history counters stop counting here
Cap == MaxLimit + 1
Bump(f, ip) == [f EXCEPT ![ip] = IF @ < Cap THEN @ + 1 ELSE @]
Zero == [ip \in Ips |-> 0]

NoUsage == [period |-> "undefined"]
NoEntry == [usage |-> EmptyMap, key |-> <<0, 0>>, period |-> <<0, 0>>]
NoArrival == [ip |-> <<>>, admitted |-> -1, epoch |-> -1]

AdminIps == getAdminIps(ADMIN_IPS)

\* values of STABILITY_API_KEY and STABILITY_API_URL explored for prog
StabilityValues(prog) ==
    IF prog = "variant"
    THEN { ApiKeyValues[i] : i \in DOMAIN ApiKeyValues }
    ELSE { JsUndefined }

\* the state after the module of prog has been loaded; track: whether the
\* specified ledger is run alongside the program
InitWith(prog, track) ==
    /\ program = prog
    /\ STABILITY_API_KEY \in StabilityValues(prog)
    /\ STABILITY_API_URL \in StabilityValues(prog)
    /\ tracking = track
    /\ specLedger = EmptyMap
    /\ clock = StartClock
    /\ HF_API_KEY \in { ApiKeyValues[i] : i \in DOMAIN ApiKeyValues }
    /\ ADMIN_IPS \in { AdminEnvValues[i] : i \in DOMAIN AdminEnvValues }
    /\ MAX_IMAGES_PER_MONTH \in Limits
    /\ usageByIp = EmptyMap
    /\ currentMonthKey = getMonthKey(StartClock)
    /\ running = NoSlot
    /\ pc = [r \in Slots |-> "idle"]
    /\ req = [r \in Slots |-> NoReq]
    /\ clientIp = [r \in Slots |-> <<>>]
    /\ isAdmin = [r \in Slots |-> FALSE]
    /\ previous = [r \in Slots |-> 0]
    /\ usageInfo = [r \in Slots |-> NoUsage]
    /\ res = [r \in Slots |-> <<>>]
    /\ called = [r \in Slots |-> FALSE]
    /\ epoch = 0
    /\ admitted = Zero
    /\ started = Zero
    /\ entry = NoEntry
    /\ arrival = [r \in Slots |-> NoArrival]

Init == InitWith("server", FALSE)

(* --------------------------- the event loop ---------------------------- *)
\* an event loop in which the handler also waits between reading the
\* counter and testing it
YieldsAtCheck(p) ==
    p \in {"check", "awaitFetch", "awaitText", "awaitBuffer", "awaitPost", "done"}

\* a handler that waits for the upstream call without giving the thread back
YieldsNotForFetch(p) == p \in {"awaitText", "awaitBuffer", "awaitPost", "done"}

\* the positions at which a handler gives the thread back: its awaits
\* (fetch, hfResponse.text(), hfResponse.arrayBuffer(); axios.post in the
\* variant) and its return
Yields(p) == p \in {"awaitFetch", "awaitText", "awaitBuffer", "awaitPost", "done"}

\* slot r may take its next step
CanRun(r) ==
    \/ running = r
    \/ running = NoSlot /\ (pc[r] = "queued" \/ Yields(pc[r]))

\* the thread after slot r has moved to position p
Thread(r, p) == IF Yields(p) THEN NoSlot ELSE r

\* the months since the process started
MonthsSince(now) == (now[1] - StartClock[1]) * 12 + (now[2] - StartClock[2])

\* the wall clock passes a month boundary
Tick ==
    /\ MonthsSince(clock) < MaxTicks
    /\ clock' = IF clock[2] = 11 THEN <<clock[1] + 1, 0>> ELSE <<clock[1], clock[2] + 1>>
    /\ UNCHANGED <<config, ledger, running, pc, locals, res, called, history>>

(* ------------------------ the specified ledger ------------------------- *)
\* Ledger.getOrInit: the record of ip if its period is the current one,
\* otherwise a fresh record of the current period, which is stored
SpecGetOrInit(L, ip, period) ==
    IF ip \in DOMAIN L /\ L[ip].period = period
    THEN L
    ELSE MapSet(L, ip, [period |-> period, count |-> 0])

\* Ledger.increment: the same rollover check, then count + 1
SpecIncrement(L, ip, period) ==
    LET M == SpecGetOrInit(L, ip, period)
    IN  MapSet(M, ip, [period |-> period, count |-> M[ip].count + 1])

\* Admission Controller, steps 2 and 3 (an identity that is not an admin):
\* the decision, the usage snapshot and the ledger afterwards
SpecAdmit(L, ip, limit, period) ==
    LET M == SpecGetOrInit(L, ip, period)
    IN  IF M[ip].count >= limit
        THEN [allowed |-> FALSE, used |-> M[ip].count, remaining |-> 0,
              limit |-> limit, ledger |-> M]
        ELSE LET N == SpecIncrement(M, ip, period)
             IN  [allowed |-> TRUE, used |-> N[ip].count,
                  remaining |-> IF limit - N[ip].count > 0 THEN limit - N[ip].count ELSE 0,
                  limit |-> limit, ledger |-> N]

(* ---------------------------- the handler ------------------------------ *)
\* a month check that updates the key and keeps the counters
ensureUsageWindowKeeps(now, usage, key) ==
    [usage |-> usage, key |-> getMonthKey(now)]

\* a month check with the comparison inverted
ensureUsageWindowInverted(now, usage, key) ==
    IF getMonthKey(now) = key
    THEN [usage |-> EmptyMap, key |-> getMonthKey(now)]
    ELSE [usage |-> usage, key |-> key]

\* ensureUsageWindow: the ledger after the month check
ensureUsageWindow(now, usage, key) ==
    IF getMonthKey(now) # key
    THEN [usage |-> EmptyMap, key |-> getMonthKey(now)]
    ELSE [usage |-> usage, key |-> key]

\* a validation that tests the type only and lets the empty prompt pass
PromptRejectedByType(prompt) == prompt.t # "string"

\* !prompt || typeof prompt !== "string"
PromptRejected(prompt) == ~Truthy(prompt) \/ prompt.t # "string"

\* a comparison that lets one request too many through
QuotaReachedStrict(prev, limit) == prev > limit

\* previous >= MAX_IMAGES_PER_MONTH
QuotaReached(prev, limit) == prev >= limit

\* a count that is not incremented
NextUsedSame(prev) == prev

\* const used = previous + 1
NextUsed(prev) == prev + 1

\* what is left computed from the count before the increment
RemainingBefore(limit, used) == IF limit - (used - 1) > 0 THEN limit - (used - 1) ELSE 0

\* Math.max(MAX_IMAGES_PER_MONTH - used, 0)
Remaining(limit, used) == IF limit - used > 0 THEN limit - used ELSE 0

\* usageByIp.set(clientIp, used)
Charge(usage, ip, used) == MapSet(usage, ip, used)

\* a test of the classification with the negation lost
AfterClassifyInverted(adm) == IF adm THEN "quota" ELSE "call"

\* if (!isAdmin) { quota block } else { admin_unlimited }
AfterClassify(adm) == IF adm THEN "call" ELSE "quota"

\* a denial branch that counts the refused request
RefusedCounts(usage, ip, prev) == MapSet(usage, ip, prev + 1)

\* the ledger after a request of ip that read prev has been refused: the
\* denial branch returns without touching usageByIp
Refused(usage, ip, prev) == usage

\* a handler that gives the image back when the upstream call fails
SettledRefunds(usage, ip, o) ==
    IF o # "ok" /\ ip \in DOMAIN usage /\ usage[ip] > 0
    THEN MapSet(usage, ip, usage[ip] - 1)
    ELSE usage

\* the ledger after the upstream call of a request of ip has settled with
\* outcome o: no branch after the fetch touches usageByIp
Settled(usage, ip, o) == usage

\* a denial without its return: the handler goes on to the upstream call
AfterDenyFallsThrough == "call"

\* the position after res.status(429).json(...): the handler returns
AfterDeny == "done"

Response(status, error, usage) == [status |-> status, error |-> error, usage |-> usage]

Send(r, response) == res' = [res EXCEPT ![r] = Append(@, response)]

\* the locals of slot r once its handler is at position p: they are gone
\* when it has returned
Local(f, r, v, p) == [f EXCEPT ![r] = IF p = "done" THEN v ELSE @]

\* the history of the running handler ends when it gives the thread back
Leave(r, p) == entry' = IF Thread(r, p) = NoSlot THEN NoEntry ELSE entry

\* a request reaches the server and is passed down the middleware chain
Arrive(r, k) ==
    /\ pc[r] \in {"idle", "done"}
    /\ running = NoSlot
    /\ pc' = [pc EXCEPT ![r] = "queued"]
    /\ req' = [req EXCEPT ![r] = k]
    /\ res' = [res EXCEPT ![r] = <<>>]
    /\ called' = [called EXCEPT ![r] = FALSE]
    /\ LET ip == getClientIp(Request(k))
       IN  arrival' = [arrival EXCEPT ![r] =
              IF /\ ~PromptRejected(Request(k).prompt)
                 /\ ip \notin AdminIps
                 /\ getMonthKey(clock) = currentMonthKey
                 /\ MAX_IMAGES_PER_MONTH - MapGetOrZero(usageByIp, ip) = 1
              THEN [ip |-> ip, admitted |-> admitted[ip], epoch |-> epoch]
              ELSE NoArrival]
    /\ UNCHANGED <<clock, config, ledger, running, clientIp, isAdmin, previous,
                   usageInfo, epoch, admitted, started, entry, specLedger>>

\* lines 86-102 and the admin branch: the month check, the validation of the
\* body and of the configuration, the identity and its classification
Start(r) ==
    /\ program = "server"
    /\ pc[r] = "queued"
    /\ CanRun(r)
    /\ LET w       == ensureUsageWindow(clock, usageByIp, currentMonthKey)
           changed == getMonthKey(clock) # currentMonthKey
           q       == Request(req[r])
           ip      == getClientIp(q)
           adm     == IsAdminIp(ip, ADMIN_IPS)
           base    == IF changed THEN Zero ELSE admitted
       IN  /\ usageByIp' = w.usage
           /\ currentMonthKey' = w.key
           /\ epoch' = IF changed THEN epoch + 1 ELSE epoch
           /\ started' = IF changed THEN Zero ELSE started
           /\ IF PromptRejected(q.prompt)
              THEN /\ Send(r, [status |-> 400, error |-> "Prompt is required."])
                   /\ pc' = [pc EXCEPT ![r] = "done"]
                   /\ running' = NoSlot
                   /\ entry' = NoEntry
                   /\ admitted' = base
                   /\ UNCHANGED <<clientIp, isAdmin, usageInfo>>
              ELSE IF ~Truthy(HF_API_KEY)
              THEN /\ Send(r, [status |-> 500, error |-> "HF_API_KEY is not configured"])
                   /\ pc' = [pc EXCEPT ![r] = "done"]
                   /\ running' = NoSlot
                   /\ entry' = NoEntry
                   /\ admitted' = base
                   /\ UNCHANGED <<clientIp, isAdmin, usageInfo>>
              ELSE /\ clientIp' = [clientIp EXCEPT ![r] = ip]
                   /\ isAdmin' = [isAdmin EXCEPT ![r] = adm]
                   /\ usageInfo' = [usageInfo EXCEPT ![r] =
                         IF adm THEN [period |-> "admin_unlimited"] ELSE @]
                   /\ admitted' = IF adm THEN Bump(base, ip) ELSE base
                   /\ pc' = [pc EXCEPT ![r] = AfterClassify(adm)]
                   /\ running' = r
                   /\ entry' = [usage |-> usageByIp, key |-> currentMonthKey,
                                period |-> getMonthKey(clock)]
                   /\ UNCHANGED res
    /\ req' = [req EXCEPT ![r] = NoReq]
    /\ UNCHANGED <<clock, config, previous, called, arrival, specLedger>>

\* line 107: const previous = usageByIp.get(clientIp) || 0
ReadUsage(r) ==
    /\ pc[r] = "quota"
    /\ CanRun(r)
    /\ previous' = [previous EXCEPT ![r] = MapGetOrZero(usageByIp, clientIp[r])]
    /\ pc' = [pc EXCEPT ![r] = "check"]
    /\ running' = Thread(r, "check")
    /\ Leave(r, "check")
    /\ UNCHANGED <<clock, config, ledger, req, clientIp, isAdmin, usageInfo, res,
                   called, epoch, admitted, started, arrival, specLedger>>

\* lines 109-132: the denial, or the charge and the usage snapshot
CheckQuota(r) ==
    /\ pc[r] = "check"
    /\ CanRun(r)
    /\ IF QuotaReached(previous[r], MAX_IMAGES_PER_MONTH)
       THEN LET info == [period |-> "per_ip_month", limit |-> MAX_IMAGES_PER_MONTH,
                         used |-> previous[r], remaining |-> 0]
            IN  /\ usageInfo' = Local([usageInfo EXCEPT ![r] = info], r, NoUsage, AfterDeny)
                /\ Send(r, Response(429, "Monthly image limit reached", info))
                /\ pc' = [pc EXCEPT ![r] = AfterDeny]
                /\ running' = Thread(r, AfterDeny)
                /\ Leave(r, AfterDeny)
                /\ clientIp' = Local(clientIp, r, <<>>, AfterDeny)
                /\ usageByIp' = Refused(usageByIp, clientIp[r], previous[r])
                /\ UNCHANGED <<currentMonthKey, admitted>>
       ELSE LET used == NextUsed(previous[r])
                info == [period |-> "per_ip_month", limit |-> MAX_IMAGES_PER_MONTH,
                         used |-> used,
                         remaining |-> Remaining(MAX_IMAGES_PER_MONTH, used)]
            IN  /\ usageByIp' = Charge(usageByIp, clientIp[r], used)
                /\ usageInfo' = [usageInfo EXCEPT ![r] = info]
                /\ admitted' = Bump(admitted, clientIp[r])
                /\ pc' = [pc EXCEPT ![r] = "call"]
                /\ running' = Thread(r, "call")
                /\ Leave(r, "call")
                /\ UNCHANGED <<currentMonthKey, res, clientIp>>
    /\ previous' = [previous EXCEPT ![r] = 0]
    /\ specLedger' = IF tracking
                     THEN SpecAdmit(specLedger, clientIp[r], MAX_IMAGES_PER_MONTH,
                                    entry.period).ledger
                     ELSE specLedger
    /\ UNCHANGED <<clock, config, req, isAdmin, called, epoch, started, arrival>>

\* lines 140-154: fetch(HF_API_URL, ...) is started and awaited
CallUpstream(r) ==
    /\ pc[r] = "call"
    /\ CanRun(r)
    /\ called' = [called EXCEPT ![r] = TRUE]
    /\ started' = Bump(started, clientIp[r])
    /\ pc' = [pc EXCEPT ![r] = "awaitFetch"]
    /\ running' = Thread(r, "awaitFetch")
    /\ Leave(r, "awaitFetch")
    /\ UNCHANGED <<clock, config, ledger, locals, res, epoch, admitted, arrival,
                   specLedger>>

\* the handler of slot r returns after its last response
Return(r) ==
    /\ pc' = [pc EXCEPT ![r] = "done"]
    /\ clientIp' = [clientIp EXCEPT ![r] = <<>>]
    /\ isAdmin' = [isAdmin EXCEPT ![r] = FALSE]
    /\ usageInfo' = [usageInfo EXCEPT ![r] = NoUsage]

\* the catch block, lines 174-180
Caught(r) ==
    /\ Send(r, Response(500, "Server error while generating image.", usageInfo[r]))
    /\ Return(r)

\* the handler of slot r stays suspended, at position p
Suspend(r, p) ==
    /\ pc' = [pc EXCEPT ![r] = p]
    /\ UNCHANGED <<clientIp, isAdmin, usageInfo, res>>

\* the fetch settles: with an OK response, a non-OK response, or it rejects
FetchSettles(r, o) ==
    /\ pc[r] = "awaitFetch"
    /\ CanRun(r)
    /\ usageByIp' = Settled(usageByIp, clientIp[r], o)
    /\ CASE o = "ok" -> Suspend(r, "awaitBuffer")
         [] o = "notOk" -> Suspend(r, "awaitText")
         [] o = "throw" -> Caught(r)
    /\ UNCHANGED <<clock, config, currentMonthKey, running, req, previous, called,
                   history>>

\* hfResponse.text() settles, lines 157-163
TextSettles(r, o) ==
    /\ pc[r] = "awaitText"
    /\ CanRun(r)
    /\ usageByIp' = Settled(usageByIp, clientIp[r], o)
    /\ CASE o = "ok" ->
              /\ Send(r, Response(502, "Image generation failed upstream.", usageInfo[r]))
              /\ Return(r)
         [] o = "throw" -> Caught(r)
    /\ UNCHANGED <<clock, config, currentMonthKey, running, req, previous, called,
                   history>>

\* hfResponse.arrayBuffer() settles, lines 166-173
BufferSettles(r, o) ==
    /\ pc[r] = "awaitBuffer"
    /\ CanRun(r)
    /\ usageByIp' = Settled(usageByIp, clientIp[r], o)
    /\ CASE o = "ok" ->
              /\ Send(r, Response(200, "", usageInfo[r]))
              /\ Return(r)
         [] o = "throw" -> Caught(r)
    /\ UNCHANGED <<clock, config, currentMonthKey, running, req, previous, called,
                   history>>

Next ==
    \/ Tick
    \/ \E r \in Slots, k \in ReqIds : Arrive(r, k)
    \/ \E r \in Slots : Start(r)
    \/ \E r \in Slots : ReadUsage(r)
    \/ \E r \in Slots : CheckQuota(r)
    \/ \E r \in Slots : CallUpstream(r)
    \/ \E r \in Slots, o \in {"ok", "notOk", "throw"} : FetchSettles(r, o)
    \/ \E r \in Slots, o \in {"ok", "throw"} : TextSettles(r, o)
    \/ \E r \in Slots, o \in {"ok", "throw"} : BufferSettles(r, o)

Spec == Init /\ [][Next]_vars

(* -------------------- the variant without a quota --------------------- *)
\* if (!prompt)
PromptMissing(prompt) == ~Truthy(prompt)

\* if (!STABILITY_API_KEY || !STABILITY_API_URL)
NotConfigured(key, url) == ~Truthy(key) \/ ~Truthy(url)

\* the variant's handler up to the upstream call: the validation of the
\* body and of the configuration
VStart(r) ==
    /\ program = "variant"
    /\ pc[r] = "queued"
    /\ CanRun(r)
    /\ IF PromptMissing(Request(req[r]).prompt)
       THEN /\ Send(r, [status |-> 400, error |-> "Missing prompt"])
            /\ pc' = [pc EXCEPT ![r] = "done"]
            /\ running' = NoSlot
       ELSE IF NotConfigured(STABILITY_API_KEY, STABILITY_API_URL)
       THEN /\ Send(r, [status |-> 500,
                        error |-> "Server not configured (API key or URL missing)"])
            /\ pc' = [pc EXCEPT ![r] = "done"]
            /\ running' = NoSlot
       ELSE /\ pc' = [pc EXCEPT ![r] = "post"]
            /\ running' = r
            /\ UNCHANGED res
    /\ req' = [req EXCEPT ![r] = NoReq]
    /\ UNCHANGED <<clock, config, ledger, clientIp, isAdmin, previous, usageInfo,
                   called, history>>

\* the form is built and axios.post is called; the handler waits for it
VPost(r) ==
    /\ pc[r] = "post"
    /\ CanRun(r)
    /\ called' = [called EXCEPT ![r] = TRUE]
    /\ pc' = [pc EXCEPT ![r] = "awaitPost"]
    /\ running' = Thread(r, "awaitPost")
    /\ UNCHANGED <<clock, config, ledger, locals, res, history>>

\* axios.post settles: it resolves and the image is sent, or it rejects and
\* the catch block answers
VPostSettles(r, o) ==
    /\ pc[r] = "awaitPost"
    /\ CanRun(r)
    /\ CASE o = "ok" -> Send(r, [status |-> 200, error |-> ""])
         [] o = "throw" -> Send(r, [status |-> 500, error |-> "Generation failed"])
    /\ pc' = [pc EXCEPT ![r] = "done"]
    /\ UNCHANGED <<clock, config, ledger, running, locals, called, history>>

\* the handler of slot r goes on after it has been entered (server.js), or
\* takes any of its steps (variant)
Resume(r) ==
    \/ ReadUsage(r)
    \/ CheckQuota(r)
    \/ CallUpstream(r)
    \/ \E o \in {"ok", "notOk", "throw"} : FetchSettles(r, o)
    \/ \E o \in {"ok", "throw"} : TextSettles(r, o)
    \/ \E o \in {"ok", "throw"} : BufferSettles(r, o)
    \/ VStart(r)
    \/ VPost(r)
    \/ \E o \in {"ok", "throw"} : VPostSettles(r, o)

\* a step of the handler of slot r, in either program
Handler(r) == Start(r) \/ Resume(r)

\* ENABLED <<Start(r)>>_vars: the guard of Start(r), whose step always
\* changes pc[r]
StartEnabled(r) == program = "server" /\ pc[r] = "queued" /\ CanRun(r)

\* either program starts; the server with admin identities configured and
\* a limit of one image
InitLive ==
    /\ InitWith("server", FALSE) \/ InitWith("variant", FALSE)
    /\ ADMIN_IPS = AdminEnvValues[2]
    /\ MAX_IMAGES_PER_MONTH = 1

NextLive ==
    \/ Tick
    \/ \E r \in Slots, k \in ReqIds : Arrive(r, k)
    \/ \E r \in Slots : Handler(r)

\* The event loop runs every callback that is ready, in the order in which
\* they became ready, and a running handler goes on to its next await; the
\* upstream call settles.  Whether requests arrive and whether a month
\* passes is left open.
\* Strong fairness of Start(r) is written out with its guard.
Fairness ==
    \A r \in Slots :
        /\ SF_vars(Resume(r))
        /\ []<>StartEnabled(r) => []<><<Start(r)>>_vars

SpecLive == InitLive /\ [][NextLive]_vars /\ Fairness

\* the program with the specified ledger run alongside
InitEq == InitWith("server", TRUE)
SpecEq == InitEq /\ [][Next]_vars

TypeOK ==
    /\ running \in Slots \cup {NoSlot}
    /\ \A r \in Slots : pc[r] \in {"idle", "queued", "quota", "check", "call",
                                  "awaitFetch", "awaitText", "awaitBuffer",
                                  "post", "awaitPost", "done"}
    /\ program \in {"server", "variant"}
    /\ DOMAIN usageByIp \subseteq Ips
    /\ tracking \in BOOLEAN
    /\ DOMAIN specLedger \subseteq Ips

(* ============================== claims ================================= *)
Limit == MAX_IMAGES_PER_MONTH

\* slot r takes the step of lines 109-132 (the quota decision)
Decides(r) == pc[r] = "check" /\ pc'[r] # "check"

\* slot r sends a response in this step
Sends(r) == Len(res'[r]) = Len(res[r]) + 1

\* the request of slot r was answered with the quota denial
Denied(r) == res[r] # <<>> /\ res[r][1].status = 429

\* the request of slot r was let through to the upstream call
Allowed(r) == pc[r] = "call" \/ called[r]

\* C1: for an identity that is not an admin, once `limit` requests have been
\* let through in the current period, the next quota decision for that
\* identity is the 429 denial, reporting used = limit and remaining = 0.
C1_DenyAfterLimit ==
    [][\A r \in Slots :
        (Decides(r) /\ clientIp[r] \notin AdminIps /\ admitted[clientIp[r]] = Limit)
        => /\ pc'[r] = "done"
           /\ Sends(r)
           /\ res'[r][1].status = 429
           /\ res'[r][1].usage.used = Limit
           /\ res'[r][1].usage.remaining = 0
           /\ res'[r][1].usage.limit = Limit]_vars

\* a request was denied after MaxLimit admissions of its identity
C1_Witness ==
    \E r \in Slots, ip \in Ips \ AdminIps :
        /\ Limit = MaxLimit
        /\ admitted[ip] = Limit
        /\ pc[r] = "done"
        /\ Denied(r)
        /\ res[r][1].usage.used = Limit
        /\ res[r][1].usage.remaining = 0

\* C2: two requests of the same non-admin identity that both arrived while
\* one image was left, decided in the period of their arrival with no other
\* admission of that identity in between: exactly one is let through, the
\* other is denied, and the stored count is the limit.
C2_OneOfTwo ==
    \A r1, r2 \in Slots :
        LET ip == arrival[r1].ip
            n  == (IF Allowed(r1) THEN 1 ELSE 0) + (IF Allowed(r2) THEN 1 ELSE 0)
        IN  ( /\ r1 # r2
              /\ arrival[r1] # NoArrival
              /\ arrival[r2] = arrival[r1]
              /\ arrival[r1].epoch = epoch
              /\ Allowed(r1) \/ Denied(r1)
              /\ Allowed(r2) \/ Denied(r2)
              /\ admitted[ip] = arrival[r1].admitted + n )
            => /\ n = 1
               /\ Allowed(r1) # Allowed(r2)
               /\ Denied(r1) # Denied(r2)
               /\ MapGetOrZero(usageByIp, ip) = Limit

\* the two requests arrived with one image left; one is suspended in the
\* upstream call, the other has been denied
C2_Witness ==
    \E r1, r2 \in Slots :
        /\ r1 # r2
        /\ arrival[r1] # NoArrival
        /\ arrival[r2] = arrival[r1]
        /\ arrival[r1].epoch = epoch
        /\ pc[r1] = "awaitFetch"
        /\ Denied(r2)
        /\ Limit = MaxLimit

\* the identity of the request waiting in slot r
Identity(r) == getClientIp(Request(req[r]))

\* the handler of slot r is entered in this step
Enters(r) == pc[r] = "queued" /\ pc'[r] # "queued"

\* C3: a request of an admin identity that passes the validation is let
\* through to the upstream call with the admin_unlimited snapshot, however
\* many requests of that identity were let through before and whatever the
\* limit; no response to a request of an admin identity is the 429.
C3_AdminAlwaysAllowed ==
    [][\A r \in Slots :
        /\ ( /\ Enters(r)
             /\ Identity(r) \in AdminIps
             /\ ~PromptRejected(Request(req[r]).prompt)
             /\ Truthy(HF_API_KEY) )
           => /\ pc'[r] = "call"
              /\ usageInfo'[r].period = "admin_unlimited"
              /\ res'[r] = <<>>
        /\ clientIp[r] \in AdminIps
           => /\ pc[r] \notin {"quota", "check"}
              /\ Sends(r) => res'[r][Len(res'[r])].status \in {200, 500, 502}]_vars

\* an admin identity has been let through more often than the limit and its
\* latest request got the image
C3_Witness ==
    \E r \in Slots, ip \in AdminIps :
        /\ admitted[ip] > Limit
        /\ Limit = 1
        /\ pc[r] = "done"
        /\ res[r] # <<>>
        /\ res[r][1].status = 200
        /\ res[r][1].usage.period = "admin_unlimited"

\* a step of the handler of a request whose identity is an admin
AdminStep(r) ==
    \/ Enters(r) /\ Identity(r) \in AdminIps
    \/ clientIp[r] \in AdminIps /\ pc'[r] # pc[r]

\* C4 as stated: a request of an admin identity leaves the whole ledger
\* (key set, counts, stored month key) as it was, also on the first request
\* after a month change.
C4_AdminNeverTouchesLedger ==
    [][\A r \in Slots : AdminStep(r) => UNCHANGED ledger]_vars

\* C4, amended: a request of an admin identity creates and changes no
\* counter; its only effect on the ledger is that of ensureUsageWindow at
\* the entry of the handler when the month has changed (the map is cleared
\* and the stored month key updated); and no counter of an admin identity
\* exists in any state.
C4_AdminOnlyRollsOver ==
    [][/\ \A r \in Slots :
            AdminStep(r)
            => \/ UNCHANGED ledger
               \/ /\ Enters(r)
                  /\ getMonthKey(clock) # currentMonthKey
                  /\ usageByIp' = EmptyMap
                  /\ currentMonthKey' = getMonthKey(clock)
       /\ DOMAIN usageByIp' \cap AdminIps = {}]_vars

\* an admin request has been served in a month in which other identities
\* have counters
C4_Witness ==
    \E r \in Slots, ip \in AdminIps :
        /\ clientIp[r] = ip
        /\ pc[r] = "awaitFetch"
        /\ admitted[ip] > Limit
        /\ usageByIp # EmptyMap
        /\ epoch > 0

\* C5: a request answered with the 429 has left the ledger as it was when
\* its handler was entered, and the stored count of its identity is the
\* limit.
C5_DenyLeavesLedger ==
    [][\A r \in Slots :
        (Decides(r) /\ Sends(r) /\ res'[r][Len(res'[r])].status = 429)
        => /\ UNCHANGED ledger
           /\ entry.usage = usageByIp
           /\ entry.key = currentMonthKey
           /\ MapGetOrZero(usageByIp', clientIp[r]) = Limit]_vars

\* two requests of the only identity with a counter have been denied in the
\* same month and the counter is still the limit
C5_Witness ==
    \E r1, r2 \in Slots, ip \in Ips :
        /\ r1 # r2
        /\ epoch = 0
        /\ Limit = MaxLimit
        /\ DOMAIN usageByIp = {ip}
        /\ usageByIp[ip] = Limit
        /\ Denied(r1) /\ res[r1][1].usage.used = Limit
        /\ Denied(r2) /\ res[r2][1].usage.used = Limit

\* C6: after a month change, the first quota decision for a non-admin
\* identity in the new month lets the request through with used = 1 and
\* stores the count 1, whatever count the identity had in the month before
\* (the limit included).
C6_RolloverResets ==
    [][\A r \in Slots :
        ( /\ Decides(r)
          /\ clientIp[r] \notin AdminIps
          /\ epoch > 0
          /\ admitted[clientIp[r]] = 0 )
        => /\ pc'[r] = "call"
           /\ res'[r] = <<>>
           /\ usageInfo'[r].used = 1
           /\ usageInfo'[r].remaining = Limit - 1
           /\ MapGetOrZero(usageByIp', clientIp[r]) = 1]_vars

\* the handler was entered with the identity's counter at the limit under
\* the key of the month before, and the request has been let through with
\* used = 1
C6_Witness ==
    \E r \in Slots :
        /\ pc[r] = "call"
        /\ running = r
        /\ ~isAdmin[r]
        /\ Limit = MaxLimit
        /\ entry.key # currentMonthKey
        /\ clientIp[r] \in DOMAIN entry.usage
        /\ entry.usage[clientIp[r]] = Limit
        /\ usageInfo[r].used = 1
        /\ usageByIp[clientIp[r]] = 1

\* C7: the k-th request of a non-admin identity let through in a month
\* (k = 1..limit) gets used = k and remaining = max(0, limit - k), and the
\* stored count after it is k.
C7_KthAdmission ==
    [][\A r \in Slots :
        (Decides(r) /\ pc'[r] = "call")
        => LET k == admitted[clientIp[r]] + 1
           IN  /\ k \in 1..Limit
               /\ admitted'[clientIp[r]] = k
               /\ usageInfo'[r].period = "per_ip_month"
               /\ usageInfo'[r].limit = Limit
               /\ usageInfo'[r].used = k
               /\ usageInfo'[r].remaining = (IF Limit - k > 0 THEN Limit - k ELSE 0)
               /\ MapGetOrZero(usageByIp', clientIp[r]) = k]_vars

\* two requests of one identity are suspended in the upstream call, let
\* through as the first and the second of the month
C7_Witness ==
    \E r1, r2 \in Slots :
        /\ r1 # r2
        /\ Limit = MaxLimit
        /\ clientIp[r1] = clientIp[r2]
        /\ pc[r1] = "awaitFetch" /\ pc[r2] = "awaitFetch"
        /\ ~isAdmin[r1]
        /\ usageInfo[r1].used = 1 /\ usageInfo[r1].remaining = Limit - 1
        /\ usageInfo[r2].used = 2 /\ usageInfo[r2].remaining = Limit - 2
        /\ usageByIp[clientIp[r1]] = 2

\* slot r is resumed from an await in this step
Resumes(r) == pc[r] \in {"awaitFetch", "awaitText", "awaitBuffer"} /\ pc'[r] # pc[r]

\* C8: when the upstream call of a non-admin request is started, the count
\* of the request is already stored; and no outcome of the upstream call
\* (image, non-OK status, exception) changes the ledger.
C8_ChargedBeforeCall ==
    [][\A r \in Slots :
        /\ (pc[r] = "call" /\ pc'[r] = "awaitFetch" /\ ~isAdmin[r])
           => /\ clientIp[r] \in DOMAIN usageByIp
              /\ usageByIp[clientIp[r]] = usageInfo[r].used
              /\ UNCHANGED ledger
        /\ Resumes(r) => UNCHANGED ledger]_vars

\* the only request so far was let through, its upstream call failed, and
\* its identity is still charged
C8_Witness ==
    \E r \in Slots, ip \in Ips :
        /\ clock = StartClock
        /\ \A q \in Slots \ {r} : pc[q] = "idle"
        /\ pc[r] = "done"
        /\ called[r]
        /\ res[r][1].status \in {500, 502}
        /\ res[r][1].usage.period = "per_ip_month"
        /\ res[r][1].usage.used = 1
        /\ DOMAIN usageByIp = {ip}
        /\ usageByIp[ip] = 1

\* C9: the upstream call is never started for a request answered with the
\* 429, and since the last month change seen at most `limit` upstream calls
\* have been started for any non-admin identity.
C9_NoUpstreamForDenied ==
    /\ \A r \in Slots :
          (\E i \in 1..Len(res[r]) : res[r][i].status = 429)
          => ~called[r] /\ pc[r] = "done"
    /\ \A ip \in Ips \ AdminIps : started[ip] <= Limit

\* limit upstream calls were started for an identity and a later request of
\* it has been denied without one
C9_Witness ==
    \E r \in Slots, ip \in Ips \ AdminIps :
        /\ Limit = MaxLimit
        /\ started[ip] = Limit
        /\ DOMAIN usageByIp = {ip}
        /\ epoch = 0
        /\ Denied(r)
        /\ ~called[r]

\* C10 as stated: the key set of the ledger only grows.
C10_KeysNeverDeleted ==
    [][DOMAIN usageByIp \subseteq DOMAIN usageByIp']_vars

\* C10, amended: as long as the stored month key is unchanged no entry is
\* deleted (the key set only grows and no count decreases); the step that
\* changes the stored month key removes every entry.
C10_KeysKeptWithinMonth ==
    [][/\ currentMonthKey' = currentMonthKey
          => /\ DOMAIN usageByIp \subseteq DOMAIN usageByIp'
             /\ \A ip \in DOMAIN usageByIp : usageByIp'[ip] >= usageByIp[ip]
       /\ currentMonthKey' # currentMonthKey => usageByIp' = EmptyMap]_vars

\* in a month that began with the map cleared, two identities have entries
C10_Witness ==
    /\ epoch > 0
    /\ Cardinality(DOMAIN usageByIp) >= 2
    /\ currentMonthKey = getMonthKey(clock)

\* the count stored for identity ip, as the handler reads it
Stored(usage, ip) == MapGetOrZero(usage, ip)

\* C11 as stated: the first request of identity X in a new month resets only
\* the record of X; the stored record of every other identity is unchanged.
C11_OnlyOwnRecordReset ==
    [][\A r \in Slots :
        (Enters(r) /\ getMonthKey(clock) # currentMonthKey)
        => \A ip \in DOMAIN usageByIp :
              ip # Identity(r) => (ip \in DOMAIN usageByIp' /\ usageByIp'[ip] = usageByIp[ip])]_vars

\* C11, amended: the rollover is lazy and global.  The passing of a month
\* boundary alone changes nothing in the ledger; the first request of any
\* identity that enters the handler in a new month removes the records of all
\* identities and stores the new month key; the ledger's month key changes in
\* no other step.
C11_LazyGlobalRollover ==
    [][/\ clock' # clock => UNCHANGED ledger
       /\ \A r \in Slots :
             (Enters(r) /\ getMonthKey(clock) # currentMonthKey)
             => /\ usageByIp' = EmptyMap
                /\ currentMonthKey' = getMonthKey(clock)
       /\ currentMonthKey' # currentMonthKey
          => \E r \in Slots : Enters(r) /\ getMonthKey(clock) # currentMonthKey]_vars

\* a request has entered the handler in a new month while the counter of
\* another identity was stored, and that counter is gone
C11_Witness ==
    \E r \in Slots :
        /\ running = r
        /\ pc[r] = "quota"
        /\ entry.key # currentMonthKey
        /\ \E ip \in DOMAIN entry.usage : ip # clientIp[r] /\ entry.usage[ip] = Limit
        /\ usageByIp = EmptyMap

\* C12 as stated: no request with an empty identity reaches the quota block,
\* is let through or denied, or gets a ledger entry under the empty string.
C12_EmptyIdentityRejected ==
    /\ EMPTY \notin DOMAIN usageByIp
    /\ \A r \in Slots :
          pc[r] \in {"quota", "check", "call", "awaitFetch", "awaitText", "awaitBuffer"}
          => clientIp[r] # EMPTY

\* C13: once the stored count of an identity is the limit, every quota
\* decision for it is the denial and the count stays the limit as long as
\* the stored month key is unchanged; no further request of it is let
\* through before the month key changes; and a stored count decreases in no
\* step that keeps the month key.
C13_AtLimitIsTerminal ==
    [][/\ \A r \in Slots :
             (Decides(r) /\ Stored(usageByIp, clientIp[r]) = Limit)
             => /\ pc'[r] = "done"
                /\ res'[r][1].status = 429
       /\ \A ip \in Ips :
             currentMonthKey' = currentMonthKey
             => /\ Stored(usageByIp', ip) >= Stored(usageByIp, ip)
                /\ Stored(usageByIp, ip) = Limit => Stored(usageByIp', ip) = Limit
                /\ (admitted[ip] = Limit /\ ip \notin AdminIps) => admitted'[ip] = Limit]_vars

\* in a month after a month change an identity has reached the limit and
\* two of its requests have been denied
C13_Witness ==
    \E r1, r2 \in Slots, ip \in Ips \ AdminIps :
        /\ r1 # r2
        /\ Limit = MaxLimit
        /\ epoch > 0
        /\ DOMAIN usageByIp = {ip}
        /\ usageByIp[ip] = Limit
        /\ admitted[ip] = Limit
        /\ Denied(r1)
        /\ Denied(r2)

\* slot r is suspended in an await
Suspended(r) == pc[r] \in {"awaitFetch", "awaitText", "awaitBuffer"}

\* the identity on whose behalf slot r takes a step
Acting(r) == IF pc[r] = "queued" THEN Identity(r) ELSE clientIp[r]

\* C14: a request suspended in the upstream call does not hold the thread,
\* so the handler of a waiting request of another slot can run; and a step
\* of the handler of a request of identity A that keeps the month key leaves
\* the stored count of every other identity as it was.
C14_IdentitiesIndependent ==
    [][\A a \in Slots :
        /\ Suspended(a)
           => /\ running # a
              /\ \A b \in Slots \ {a} :
                    (pc[b] = "queued" /\ running \in {NoSlot, a}) => CanRun(b)
        /\ (pc[a] \notin {"idle", "done"} /\ pc'[a] # pc[a]
              /\ currentMonthKey' = currentMonthKey)
           => \A ip \in Ips \ {Acting(a)} : Stored(usageByIp', ip) = Stored(usageByIp, ip)]_vars

\* while a request of one identity is suspended in the fetch, the handler of
\* a request of another identity has been entered and has let it through
C14_Witness ==
    \E a, b \in Slots :
        /\ a # b
        /\ pc[a] = "awaitFetch"
        /\ ~isAdmin[a]
        /\ running = b
        /\ pc[b] = "call"
        /\ ~isAdmin[b]
        /\ clientIp[a] # clientIp[b]
        /\ usageByIp[clientIp[a]] = Limit
        /\ usageInfo[b].used = 1

SnapshotOK(u) ==
    u.period = "per_ip_month"
    => /\ u.limit = Limit
       /\ u.remaining >= 0
       /\ u.used + u.remaining = Limit

\* C16: every stored count is between 1 and the limit, and every usage
\* snapshot of a non-admin request, held by a handler or sent in a response
\* (let through or denied), has remaining >= 0 and used + remaining = limit.
C16_CountsWithinLimit ==
    /\ \A ip \in DOMAIN usageByIp : usageByIp[ip] \in 1..Limit
    /\ \A r \in Slots :
          /\ SnapshotOK(usageInfo[r])
          /\ \A i \in 1..Len(res[r]) :
                "usage" \in DOMAIN res[r][i] => SnapshotOK(res[r][i].usage)

\* with the largest limit, one request got the image as the first of the
\* month and another one was denied at the limit
C16_Witness ==
    \E r1, r2 \in Slots, ip \in DOMAIN usageByIp :
        /\ Limit = MaxLimit
        /\ usageByIp[ip] = Limit
        /\ Denied(r1)
        /\ res[r1][1].usage.used = Limit
        /\ pc[r2] = "done" /\ res[r2] # <<>>
        /\ res[r2][1].status = 200
        /\ res[r2][1].usage.period = "per_ip_month"
        /\ res[r2][1].usage.used = 1
        /\ res[r2][1].usage.remaining = Limit - 1

\* the body of the request q has no prompt, an empty one or one that is not
\* a string
BadPrompt(q) == q.prompt.t # "string" \/ q.prompt.v = <<>>

\* C17: a request rejected by the validation (400 for a missing, empty or
\* non-string prompt, 500 for a missing HF_API_KEY) is answered in the step
\* that enters its handler, starts no upstream call and increases no
\* stored count.
C17_RejectedConsumesNothing ==
    [][\A r \in Slots :
        (Enters(r) /\ (BadPrompt(Request(req[r])) \/ HF_API_KEY.t = "undefined"))
        => /\ pc'[r] = "done"
           /\ res'[r] = << [status |-> IF BadPrompt(Request(req[r])) THEN 400 ELSE 500,
                            error |-> IF BadPrompt(Request(req[r]))
                                      THEN "Prompt is required."
                                      ELSE "HF_API_KEY is not configured"] >>
           /\ called'[r] = FALSE
           /\ running' = NoSlot
           /\ \A ip \in Ips :
                 /\ Stored(usageByIp', ip) <= Stored(usageByIp, ip)
                 /\ started'[ip] <= started[ip]
                 /\ admitted'[ip] <= admitted[ip]]_vars

\* a request was answered 400 in a month in which an identity has a counter
\* and an image left
C17_Witness ==
    \E r \in Slots, ip \in Ips :
        /\ pc[r] = "done"
        /\ res[r] # <<>>
        /\ res[r][1].status = 400
        /\ ~called[r]
        /\ Limit = MaxLimit
        /\ DOMAIN usageByIp = {ip}
        /\ usageByIp[ip] = 1
        /\ currentMonthKey = getMonthKey(clock)

\* the usage snapshot the program gives in the step in which slot r decides
Snapshot(r) == IF pc'[r] = "call" THEN usageInfo'[r] ELSE res'[r][1].usage

\* C18: run on the same requests and the same period readings, the ledger
\* of server.js and the specified per-identity ledger give every request
\* of an identity that is not an admin the same decision and the same used,
\* remaining and limit; a request of an admin identity is let through by
\* both, with no used and no remaining. Period readings never go back.
C18_SameAsSpecifiedLedger ==
    [][\A r \in Slots :
        /\ Decides(r)
           => LET a == SpecAdmit(specLedger, clientIp[r], Limit, entry.period)
              IN  /\ a.allowed = (pc'[r] = "call")
                  /\ ~a.allowed = (pc'[r] = "done" /\ res'[r][1].status = 429)
                  /\ Snapshot(r).used = a.used
                  /\ Snapshot(r).remaining = a.remaining
                  /\ Snapshot(r).limit = a.limit
        /\ (pc[r] = "queued" /\ pc'[r] \notin {"queued", "done"} /\ isAdmin'[r])
           => /\ pc'[r] = "call"
              /\ DOMAIN usageInfo'[r] = {"period"}
              /\ UNCHANGED specLedger]_vars

\* the specified ledger still holds the record of the month before for one
\* identity, at the limit, while a request of another identity has been let
\* through in the new month
C18_Witness ==
    \E r \in Slots, ip \in DOMAIN specLedger :
        /\ tracking
        /\ Limit = MaxLimit
        /\ pc[r] = "call"
        /\ ~isAdmin[r]
        /\ clientIp[r] # ip
        /\ specLedger[ip].period # currentMonthKey
        /\ specLedger[ip].count = Limit
        /\ ip \notin DOMAIN usageByIp
        /\ specLedger[clientIp[r]] = [period |-> currentMonthKey, count |-> 1]

\* the request of slot r is in the server and has not been answered
Pending(r) == pc[r] \notin {"idle", "done"}

\* C19: in server.js and in the variant, a /generate request is answered
\* exactly once on every path: no response while its handler is still on
\* its way, one response once the handler has returned, never a second
\* one; and, the upstream call settling, every request that has arrived is
\* answered eventually.
C19_ExactlyOneResponse ==
    /\ [](\A r \in Slots :
            /\ Len(res[r]) <= 1
            /\ Pending(r) => res[r] = <<>>
            /\ pc[r] = "done" => Len(res[r]) = 1)
    /\ \A r \in Slots : (pc[r] = "queued") ~> (pc[r] = "done" /\ Len(res[r]) = 1)

\* the server has answered one request with the quota denial and another
\* after an upstream response that was not OK
C19_Witness ==
    \E r1, r2 \in Slots :
        /\ program = "server"
        /\ pc[r1] = "done" /\ Len(res[r1]) = 1 /\ res[r1][1].status = 429
        /\ pc[r2] = "done" /\ Len(res[r2]) = 1 /\ res[r2][1].status = 502



====
